---- MODULE Spec2Model ----
(***************************************************************************)
(* Model of app.py: the keyword-based requirement parser, the fixed        *)
(* test-case catalog, the row projection, and the Streamlit script that    *)
(* wires them to the "Run" and "Apply answers and regenerate tests"        *)
(* buttons.  Strings are TLA+ strings; an optional value is a sequence of  *)
(* length 0 or 1.                                                          *)
(***************************************************************************)
EXTENDS Integers, Sequences, FiniteSets, TLC

VARIABLES
    mode,            \* value of the "Mode" selectbox
    input_text,      \* value of the requirement text area
    answers,         \* committed values of the three clarification inputs
    shown,           \* the clarification inputs and the Apply button are on the page
    trigger,         \* the user action that started the last script run
    ra,              \* requirement record held at the end of the last run (optional)
    td,              \* TestDesign rendered by the last run (optional)
    tdf              \* rows rendered / exported as tests.csv by the last run (optional)

vars == <<mode, input_text, answers, shown, trigger, ra, td, tdf>>

(***************************************************************************)
(* Bounds of the model.                                                    *)
(***************************************************************************)
\* number of vocabulary fragments concatenated into an input text (pure-function runs)
MaxWords == 3
\* number of fragments in a text typed into the UI
MaxUIWords == 1
\* longest assumptions list of an arbitrary requirement record
MaxAssume == 2

(***************************************************************************)
(* Python string primitives.                                               *)
(***************************************************************************)
Upper == "ABCDEFGHIJKLMNOPQRSTUVWXYZ"
LowerAlpha == "abcdefghijklmnopqrstuvwxyz"

CharAt(s, i) == SubSeq(s, i, i)

\* str.lower() on one character (ASCII letters; everything else is unchanged)
LowerChar(c) ==
    IF \E i \in 1..Len(Upper) : CharAt(Upper, i) = c
    THEN CharAt(LowerAlpha, CHOOSE i \in 1..Len(Upper) : CharAt(Upper, i) = c)
    ELSE c

\* the text used as it was typed: the .lower() call left out
Lower_Verbatim(s) == s

RECURSIVE LowerRange(_, _, _)
\* the lowercased characters lo..hi of s, by halving
LowerRange(s, lo, hi) ==
    IF lo > hi THEN ""
    ELSE IF lo = hi THEN LowerChar(CharAt(s, lo))
    ELSE LET mid == (lo + hi) \div 2
         IN  LowerRange(s, lo, mid) \o LowerRange(s, mid + 1, hi)

\* text.lower()
Lower(s) == LowerRange(s, 1, Len(s))

\* sub in s
Contains(sub, s) ==
    \E i \in 1..(Len(s) - Len(sub) + 1) : SubSeq(s, i, i + Len(sub) - 1) = sub

RECURSIVE Join(_, _)
\* sep.join(xs)
Join(sep, xs) ==
    IF xs = <<>> THEN ""
    ELSE IF Len(xs) = 1 THEN xs[1]
    ELSE xs[1] \o sep \o Join(sep, Tail(xs))

(***************************************************************************)
(* parse_requirement                                                       *)
(***************************************************************************)
clarifying ==
    << "Should OTP be mandatory for all admins or per-tenant configurable?",
       "What is the lockout threshold and lockout duration?",
       "What password complexity rules apply (length, charset, reuse, history)?" >>

acceptance ==
    << "User can login with valid email and password",
       "Admin can enable OTP for login (inferred, confidence=0.78)",
       "Successful login redirects to dashboard" >>

\* the list built by the three appends of lines 12-18
missing(text_l) ==
    (IF Contains("password", text_l) /\ ~Contains("complex", text_l)
       THEN << "password complexity policy (inferred, confidence=0.84)" >> ELSE <<>>)
    \o
    (IF Contains("lock", text_l) /\ ~Contains("attempt", text_l)
       THEN << "max failed attempts before lockout (inferred, confidence=0.81)" >> ELSE <<>>)
    \o
    (IF Contains("otp", text_l) /\ ~Contains("mandatory", text_l)
       THEN << "otp mandatory policy (inferred, confidence=0.7)" >> ELSE <<>>)

\* the fallback appended to the list instead of replacing the empty list
missing_info_of_Appended(text_l) ==
    missing(text_l) \o << "session timeout seconds (inferred, confidence=0.73)" >>

\* missing or [default]
missing_info_of(text_l) ==
    IF missing(text_l) = <<>>
    THEN << "session timeout seconds (inferred, confidence=0.73)" >>
    ELSE missing(text_l)

\* the capitalised actor name looked for in the lowercased text
actors_of_Capitalised(text_l) ==
    <<"User">> \o (IF Contains("Admin", text_l) THEN <<"Admin">> ELSE <<>>)

\* ["User"] + (["Admin"] if "admin" in text_l else [])
actors_of(text_l) ==
    <<"User">> \o (IF Contains("admin", text_l) THEN <<"Admin">> ELSE <<>>)

\* the tag name "lockout" looked for instead of the keyword "lock"
functional_tags_of_TagName(text_l) ==
    << "authentication",
       IF Contains("otp", text_l) THEN "otp" ELSE "login",
       IF Contains("lockout", text_l) THEN "lockout" ELSE "session" >>

functional_tags_of(text_l) ==
    << "authentication",
       IF Contains("otp", text_l) THEN "otp" ELSE "login",
       IF Contains("lock", text_l) THEN "lockout" ELSE "session" >>

\* a list shared between calls that still carries an earlier run's append
initial_assumptions_Shared ==
    << "Email is unique username (inferred, confidence=0.65)", "Answered clarifications: 0" >>

\* the assumptions every parsed record starts with
initial_assumptions == << "Email is unique username (inferred, confidence=0.65)" >>

parse_requirement(text) ==
    LET text_l == Lower(text)
    IN  [ title                |-> "Secure Login",
          actors               |-> actors_of(text_l),
          functional_tags      |-> functional_tags_of(text_l),
          nonfunctional_tags   |-> << "security", "usability" >>,
          acceptance_criteria  |-> acceptance,
          impacted_modules     |-> << "auth-service", "user-profile (inferred, confidence=0.62)" >>,
          missing_info         |-> missing_info_of(text_l),
          clarifying_questions |-> clarifying,
          risk                 |-> "High",
          risk_reason          |-> "Auth and lockout flows are security-critical; ambiguity can cause bypass or lockout issues",
          assumptions          |-> initial_assumptions ]

(***************************************************************************)
(* generate_tests                                                          *)
(***************************************************************************)
\* the literal catalog of lines 44-77
tests ==
    <<
       [ id |-> "TC001", title |-> "Valid login without OTP",
         preconditions |-> << "OTP disabled for tenant" >>,
         steps |-> << "1. Open login page", "2. Enter valid email and password", "3. Click Login" >>,
         test_data |-> "TD01", expected |-> "User lands on dashboard", risk |-> "High",
         automation_candidate |-> TRUE,
         automation_reason |-> "Stable UI flow; high reuse" ],
       [ id |-> "TC002", title |-> "Valid login with OTP",
         preconditions |-> << "OTP enabled for tenant", "User enrolled in OTP" >>,
         steps |-> << "1. Open login page", "2. Enter valid credentials", "3. Provide valid OTP within time window" >>,
         test_data |-> "TD02", expected |-> "Login succeeds and redirect to dashboard", risk |-> "High",
         automation_candidate |-> TRUE,
         automation_reason |-> "API-based OTP stub possible" ],
       [ id |-> "TC003", title |-> "Invalid password",
         preconditions |-> <<>>,
         steps |-> << "1. Open login page", "2. Enter valid email and invalid password", "3. Click Login" >>,
         test_data |-> "TD03", expected |-> "Error displayed; no login", risk |-> "Medium",
         automation_candidate |-> TRUE,
         automation_reason |-> "Simple negative path" ],
       [ id |-> "TC004", title |-> "OTP timeout",
         preconditions |-> << "OTP enabled" >>,
         steps |-> << "1. Login with valid credentials", "2. Do not enter OTP", "3. Wait for timeout window to elapse" >>,
         test_data |-> "TD04", expected |-> "OTP expires; user prompted to resend", risk |-> "High",
         automation_candidate |-> TRUE,
         automation_reason |-> "Can simulate clock or mock OTP" ],
       [ id |-> "TC005", title |-> "Account lockout after N failures",
         preconditions |-> << "Lockout policy configured (inferred, confidence=0.8)" >>,
         steps |-> << "1. Attempt login with invalid password N times", "2. Attempt login with valid password" >>,
         test_data |-> "TD05", expected |-> "Account is locked; login blocked", risk |-> "High",
         automation_candidate |-> FALSE,
         automation_reason |-> "Lockout reset/stateful; may be slow" ],
       [ id |-> "TC006", title |-> "Boundary: password length min-1",
         preconditions |-> <<>>,
         steps |-> << "1. Enter password at min length minus one", "2. Submit" >>,
         test_data |-> "TD06", expected |-> "Validation error", risk |-> "Low",
         automation_candidate |-> TRUE,
         automation_reason |-> "Fast validation check" ],
       [ id |-> "TC007", title |-> "Exploratory: rapid successive logins",
         preconditions |-> <<>>,
         steps |-> << "1. Attempt multiple rapid logins with valid and invalid data", "2. Observe responses and rate limits" >>,
         test_data |-> "TD07", expected |-> "System handles without instability", risk |-> "Medium",
         automation_candidate |-> FALSE,
         automation_reason |-> "Exploratory; less deterministic" ],
       [ id |-> "TC008", title |-> "State transition: locked -> unlocked after duration",
         preconditions |-> << "Account locked" >>,
         steps |-> << "1. Wait lockout duration", "2. Attempt valid login" >>,
         test_data |-> "TD08", expected |-> "Account unlocks; login succeeds", risk |-> "Medium",
         automation_candidate |-> TRUE,
         automation_reason |-> "Can fast-forward time with mocks" ]
    >>

\* the loop starting at the second test case
Tally_SkipFirst(ts, counts) ==
    [k \in DOMAIN counts |->
        counts[k] + Cardinality({ i \in 2..Len(ts) : ts[i].risk = k })]

RECURSIVE Tally(_, _)
\* for t in ts: counts[t["risk"]] += 1
Tally(ts, counts) ==
    IF ts = <<>> THEN counts
    ELSE Tally(Tail(ts), [counts EXCEPT ![Head(ts).risk] = @ + 1])

\* requirement_json.get("assumptions") or ["none"]
get_assumptions_OrNone(requirement_json) ==
    IF "assumptions" \in DOMAIN requirement_json /\ requirement_json.assumptions # <<>>
    THEN requirement_json.assumptions
    ELSE << "none" >>

\* requirement_json.get("assumptions", [])
get_assumptions(requirement_json) ==
    IF "assumptions" \in DOMAIN requirement_json
    THEN requirement_json.assumptions
    ELSE <<>>

\* the OTP test cases left out when the requirement is not tagged "otp"
generate_tests_Filtered(requirement_json) ==
    LET otp    == /\ "functional_tags" \in DOMAIN requirement_json
                  /\ \E i \in DOMAIN requirement_json.functional_tags :
                        requirement_json.functional_tags[i] = "otp"
        kept   == IF otp THEN tests
                  ELSE SelectSeq(tests, LAMBDA t : ~Contains("OTP", t.title))
        counts == Tally(kept, [k \in {"High", "Medium", "Low"} |-> 0])
    IN  [ test_cases  |-> kept,
          summary     |-> [ high |-> counts["High"], medium |-> counts["Medium"],
                            low |-> counts["Low"] ],
          assumptions |-> get_assumptions(requirement_json) ]

generate_tests(requirement_json) ==
    LET counts == Tally(tests, [k \in {"High", "Medium", "Low"} |-> 0])
    IN  [ test_cases  |-> tests,
          summary     |-> [ high |-> counts["High"], medium |-> counts["Medium"],
                            low |-> counts["Low"] ],
          assumptions |-> get_assumptions(requirement_json) ]

(***************************************************************************)
(* df_from_tests                                                           *)
(***************************************************************************)
\* the two separators exchanged
row_Swapped(t) ==
    [ id                   |-> t.id,
      title                |-> t.title,
      preconditions        |-> Join(" | ", t.preconditions),
      steps                |-> Join("; ", t.steps),
      test_data            |-> t.test_data,
      expected             |-> t.expected,
      risk                 |-> t.risk,
      automation_candidate |-> t.automation_candidate,
      automation_reason    |-> t.automation_reason ]

\* the row appended for one test case
row(t) ==
    [ id                   |-> t.id,
      title                |-> t.title,
      preconditions        |-> Join("; ", t.preconditions),
      steps                |-> Join(" | ", t.steps),
      test_data            |-> t.test_data,
      expected             |-> t.expected,
      risk                 |-> t.risk,
      automation_candidate |-> t.automation_candidate,
      automation_reason    |-> t.automation_reason ]

df_from_tests(tests_json) ==
    [ i \in 1..Len(tests_json.test_cases) |-> row(tests_json.test_cases[i]) ]

(***************************************************************************)
(* Inputs.                                                                 *)
(***************************************************************************)
default_text ==
    "Users must login using email and password; admins can require OTP. Lock account after too many failures. Redirect to dashboard on success."

\* fragments an input text is assembled from: the keywords the parser looks
\* for, in mixed case, and pieces that only form a keyword when adjacent
Vocab == { "password", "Complex", "lock", "attempt", "OTP", "mandatory",
           "Admin", "ot", "p", " " }

RECURSIVE Concat(_)
Concat(ws) == IF ws = <<>> THEN "" ELSE Head(ws) \o Concat(Tail(ws))

Texts(n) == { Concat(ws) : ws \in UNION { [1..k -> Vocab] : k \in 0..n } }

Modes == { "Requirement Analysis", "Test Design" }

NoAnswers == [q \in 1..Len(clarifying) |-> ""]

(***************************************************************************)
(* Specification of parse_requirement as a pure function.                  *)
(***************************************************************************)
InitParse ==
    /\ mode = "Requirement Analysis"
    /\ input_text \in Texts(MaxWords) \cup {default_text}
    /\ answers = NoAnswers
    /\ shown = FALSE
    /\ trigger = "none"
    /\ ra = <<>>
    /\ td = <<>>
    /\ tdf = <<>>

ParseCall ==
    /\ ra = <<>>
    /\ ra' = << parse_requirement(input_text) >>
    /\ UNCHANGED <<mode, input_text, answers, shown, trigger, td, tdf>>

NextParse == ParseCall

SpecParse == InitParse /\ [][NextParse]_vars

(***************************************************************************)
(* Specification of generate_tests and df_from_tests as pure functions of  *)
(* an arbitrary requirement record.                                        *)
(***************************************************************************)
AssumeItems == { "Email is unique username (inferred, confidence=0.65)",
                 "Answered clarifications: 0", "Tenant is single-region" }

AssumeSeqs == UNION { [1..k -> AssumeItems] : k \in 0..MaxAssume }

\* r without its assumptions key
WithoutAssumptions(r) == [f \in DOMAIN r \ {"assumptions"} |-> r[f]]

\* requirement records: parsed ones with any assumptions list, the same
\* without the key, and the empty dict
Requirements ==
    LET parsed == { parse_requirement(t) : t \in Texts(MaxUIWords) }
    IN  { [r EXCEPT !.assumptions = a] : r \in parsed, a \in AssumeSeqs }
        \cup { WithoutAssumptions(r) : r \in parsed }
        \cup { <<>> }

InitGen ==
    /\ mode = "Test Design"
    /\ input_text = ""
    /\ answers = NoAnswers
    /\ shown = FALSE
    /\ trigger = "none"
    /\ ra \in { <<r>> : r \in Requirements }
    /\ td = <<>>
    /\ tdf = <<>>

GenerateCall ==
    /\ td = <<>>
    /\ td' = << generate_tests(ra[1]) >>
    /\ UNCHANGED <<mode, input_text, answers, shown, trigger, ra, tdf>>

ProjectCall ==
    /\ td # <<>>
    /\ tdf = <<>>
    /\ tdf' = << df_from_tests(td[1]) >>
    /\ UNCHANGED <<mode, input_text, answers, shown, trigger, ra, td>>

NextGen == GenerateCall \/ ProjectCall

SpecGen == InitGen /\ [][NextGen]_vars

(***************************************************************************)
(* The UI script.  Streamlit runs the whole script, top to bottom, once    *)
(* per user action; st.button returns True only in the run that its own    *)
(* click started.                                                          *)
(***************************************************************************)
\* sum(1 for a in clarify_answers.values() if a)
answered(ans) == Cardinality({ q \in DOMAIN ans : ans[q] # "" })

\* line 145: the record after the adapter's append
apply_answers(r, ans) ==
    [r EXCEPT !.assumptions =
        get_assumptions(r) \o << "Answered clarifications: " \o ToString(answered(ans)) >>]

\* One run of lines 115-167.  run and apply are the values the two
\* st.button calls return in this run; the result is what the run leaves on
\* the page.
Script(run, apply, m, text, ans) ==
    IF ~run
    THEN [ ra |-> <<>>, td |-> <<>>, tdf |-> <<>>, shown |-> FALSE ]
    ELSE IF m = "Requirement Analysis"
    THEN LET r0 == parse_requirement(text)
         IN  IF apply
             THEN LET r1  == apply_answers(r0, ans)
                      td1 == generate_tests(r1)
                  IN  [ ra |-> <<r1>>, td |-> <<td1>>, tdf |-> << df_from_tests(td1) >>,
                        shown |-> TRUE ]
             ELSE [ ra |-> <<r0>>, td |-> <<>>, tdf |-> <<>>, shown |-> TRUE ]
    ELSE LET r0  == parse_requirement(text)
             td1 == generate_tests(r0)
         IN  [ ra |-> <<r0>>, td |-> <<td1>>, tdf |-> << df_from_tests(td1) >>,
               shown |-> FALSE ]

\* values a user leaves in the three clarification inputs
AnswerSets == [1..Len(clarifying) -> {"", "yes"}]

Render(out) ==
    /\ ra' = out.ra
    /\ td' = out.td
    /\ tdf' = out.tdf
    /\ shown' = out.shown

Init ==
    /\ mode = "Requirement Analysis"
    /\ input_text = default_text
    /\ answers = NoAnswers
    /\ shown = FALSE
    /\ trigger = "none"
    /\ ra = <<>>
    /\ td = <<>>
    /\ tdf = <<>>

\* the user picks a mode in the selectbox
SelectMode ==
    \E m \in Modes \ {mode} :
        /\ mode' = m
        /\ trigger' = "mode"
        /\ answers' = NoAnswers
        /\ UNCHANGED input_text
        /\ Render(Script(FALSE, FALSE, m, input_text, NoAnswers))

\* the user edits the text area
EditInput ==
    \E t \in (Texts(MaxUIWords) \cup {default_text}) \ {input_text} :
        /\ input_text' = t
        /\ trigger' = "text"
        /\ answers' = NoAnswers
        /\ UNCHANGED mode
        /\ Render(Script(FALSE, FALSE, mode, t, NoAnswers))

\* the user clicks "Run"
ClickRun ==
    \E ans \in (IF shown THEN AnswerSets ELSE {NoAnswers}) :
        /\ trigger' = "run"
        /\ answers' = ans
        /\ UNCHANGED <<mode, input_text>>
        /\ Render(Script(TRUE, FALSE, mode, input_text, ans))

\* the user commits an answer in one of the clarification inputs
Answer ==
    /\ shown
    /\ \E q \in DOMAIN answers : \E a \in {"", "yes"} \ {answers[q]} :
        /\ answers' = [answers EXCEPT ![q] = a]
        /\ trigger' = "answer"
        /\ UNCHANGED <<mode, input_text>>
        /\ Render(Script(FALSE, FALSE, mode, input_text, answers'))

\* the user clicks "Apply answers and regenerate tests"
ClickApply ==
    /\ shown
    /\ \E ans \in AnswerSets :
        /\ answers' = ans
        /\ trigger' = "apply"
        /\ UNCHANGED <<mode, input_text>>
        /\ Render(Script(FALSE, TRUE, mode, input_text, ans))

Next == SelectMode \/ EditInput \/ ClickRun \/ Answer \/ ClickApply

Spec == Init /\ [][Next]_vars

(***************************************************************************)
(* Properties.                                                             *)
(***************************************************************************)
Elems(xs) == { xs[i] : i \in DOMAIN xs }

\* kw occurs in t when letter case is ignored, compared character by character
HasWord(t, kw) ==
    \E i \in 1..(Len(t) - Len(kw) + 1) :
        \A j \in 1..Len(kw) : LowerChar(CharAt(t, i + j - 1)) = CharAt(kw, j)

\* n written in at least three digits
Pad3(n) ==
    IF n < 10 THEN "00" \o ToString(n)
    ELSE IF n < 100 THEN "0" \o ToString(n)
    ELSE ToString(n)

RECURSIVE Delimited(_, _, _)
\* the first n elements of xs written one after another with sep between them
Delimited(xs, sep, n) ==
    IF n = 0 THEN ""
    ELSE IF n = 1 THEN xs[1]
    ELSE Delimited(xs, sep, n - 1) \o sep \o xs[n]

MsgPassword == "password complexity policy (inferred, confidence=0.84)"
MsgLockout  == "max failed attempts before lockout (inferred, confidence=0.81)"
MsgOtp      == "otp mandatory policy (inferred, confidence=0.7)"
MsgDefault  == "session timeout seconds (inferred, confidence=0.73)"

\* C1 (as amended): for every requirement record r, generate_tests(r).summary
\* is {"high": 4, "medium": 3, "low": 1}: the catalog holds 4 High, 3 Medium
\* and 1 Low test cases.
C1_SummaryIsCatalogTally ==
    td # <<>> => td[1].summary = [high |-> 4, medium |-> 3, low |-> 1]

\* C1 as stated: the summary is {"high": 5, "medium": 2, "low": 1}.
C1_SummaryAsStated ==
    td # <<>> => td[1].summary = [high |-> 5, medium |-> 2, low |-> 1]

C1_Witness ==
    /\ td # <<>>
    /\ Len(td[1].test_cases) = 8
    /\ td[1].summary.high + td[1].summary.medium + td[1].summary.low = 8

\* C2: in Requirement-Analysis mode, once "Run" has put the Apply button on
\* the page, the run started by clicking "Apply answers and regenerate tests"
\* renders a TestDesign and its table.
C2_ApplyRendersTestDesign ==
    trigger = "apply" => (td # <<>> /\ tdf # <<>>)

\* C3 (as amended): for the default sentence the parsed record has actors
\* User, Admin, functional tags authentication, otp, lockout, and missing_info
\* made of the password-complexity, lockout-threshold and otp-mandatory
\* messages in that order.
C3_DefaultSentence ==
    (input_text = default_text /\ ra # <<>>) =>
        /\ ra[1].actors = << "User", "Admin" >>
        /\ ra[1].functional_tags = << "authentication", "otp", "lockout" >>
        /\ ra[1].missing_info = << MsgPassword, MsgLockout, MsgOtp >>

\* C3 as stated: for the default sentence missing_info holds the
\* otp-mandatory message alone.
C3_DefaultSentenceAsStated ==
    (input_text = default_text /\ ra # <<>>) =>
        /\ ra[1].actors = << "User", "Admin" >>
        /\ ra[1].functional_tags = << "authentication", "otp", "lockout" >>
        /\ ra[1].missing_info = << MsgOtp >>

C3_Witness ==
    /\ input_text = default_text
    /\ trigger = "run"
    /\ ra # <<>>

\* C4: missing_info is never empty; it is the default message alone when none
\* of the conditions a (password without complex), b (lock without attempt),
\* c (otp without mandatory) holds of the lowercased text, and otherwise the
\* messages of the conditions that hold, in the order a, b, c, without the
\* default message.
C4_MissingInfo ==
    ra # <<>> =>
        LET a == HasWord(input_text, "password") /\ ~HasWord(input_text, "complex")
            b == HasWord(input_text, "lock") /\ ~HasWord(input_text, "attempt")
            c == HasWord(input_text, "otp") /\ ~HasWord(input_text, "mandatory")
            m == ra[1].missing_info
        IN  /\ m # <<>>
            /\ ~(a \/ b \/ c) => m = << MsgDefault >>
            /\ (a \/ b \/ c) =>
                  /\ m = (IF a THEN << MsgPassword >> ELSE <<>>)
                         \o (IF b THEN << MsgLockout >> ELSE <<>>)
                         \o (IF c THEN << MsgOtp >> ELSE <<>>)
                  /\ MsgDefault \notin Elems(m)

\* one condition holds and another is switched off by its second keyword
C4_Witness ==
    /\ ra # <<>>
    /\ ra[1].missing_info = << MsgOtp >>
    /\ HasWord(input_text, "password")

\* C5: actors starts with "User", has one or two elements, and contains
\* "Admin" exactly when the lowercased text contains "admin".
C5_Actors ==
    ra # <<>> =>
        /\ ra[1].actors[1] = "User"
        /\ Len(ra[1].actors) \in {1, 2}
        /\ ("Admin" \in Elems(ra[1].actors)) <=> HasWord(input_text, "admin")

\* the keyword is matched although it is not typed in lower case
C5_Witness ==
    /\ ra # <<>>
    /\ ra[1].actors = << "User", "Admin" >>
    /\ ~Contains("admin", input_text)

\* C6: functional_tags is authentication, then otp or login according to
\* whether the lowercased text contains "otp", then lockout or session
\* according to whether it contains "lock"; the empty text gives
\* authentication, login, session.
C6_FunctionalTags ==
    ra # <<>> =>
        /\ ra[1].functional_tags =
              << "authentication",
                 IF HasWord(input_text, "otp") THEN "otp" ELSE "login",
                 IF HasWord(input_text, "lock") THEN "lockout" ELSE "session" >>
        /\ input_text = "" =>
              ra[1].functional_tags = << "authentication", "login", "session" >>

C6_Witness ==
    /\ ra # <<>>
    /\ ra[1].functional_tags = << "authentication", "login", "lockout" >>
    /\ input_text # ""

\* C7: the test cases are the same eight for every requirement record, with
\* ids TC001..TC008 in order, all different, and automation_candidate false
\* for TC005 and TC007 only.
C7_FixedCatalog ==
    td # <<>> =>
        LET tc == td[1].test_cases
        IN  /\ Len(tc) = 8
            /\ \A i \in 1..Len(tc) : tc[i].id = "TC" \o Pad3(i)
            /\ \A i, j \in 1..Len(tc) : tc[i].id = tc[j].id => i = j
            /\ \A i \in 1..Len(tc) : tc[i].automation_candidate <=> i \notin {5, 7}
            /\ tc = generate_tests(<<>>).test_cases

\* a design generated from a record that is not tagged "otp"
C7_Witness ==
    /\ td # <<>>
    /\ "functional_tags" \in DOMAIN ra[1]
    /\ "otp" \notin Elems(ra[1].functional_tags)

\* C8: the design's assumptions are the record's assumptions, in order, or
\* the empty sequence when the record has none; nothing else of the record
\* reaches the design.
C8_AssumptionsCopied ==
    td # <<>> =>
        LET r    == ra[1]
            has  == "assumptions" \in DOMAIN r
            only == IF has THEN [assumptions |-> r.assumptions] ELSE <<>>
        IN  /\ td[1].assumptions = (IF has THEN r.assumptions ELSE <<>>)
            /\ td[1] = generate_tests(only)

\* a record whose assumptions are two different items
C8_Witness ==
    /\ td # <<>>
    /\ "assumptions" \in DOMAIN ra[1]
    /\ Len(ra[1].assumptions) = 2
    /\ ra[1].assumptions[1] # ra[1].assumptions[2]
    /\ td[1].assumptions = ra[1].assumptions

\* C9: the projection has one row per test case in catalog order, row i
\* carrying id TC00i; preconditions are joined with "; " (empty when there are
\* none), steps with " | ", step k starting with "k. "; the scalar fields are
\* the test case's.
C9_Rows ==
    tdf # <<>> =>
        LET rows == tdf[1]
            tc   == td[1].test_cases
        IN  /\ Len(rows) = 8
            /\ Len(tc) = 8
            /\ \A i \in 1..Len(rows) :
                  /\ rows[i].id = "TC" \o Pad3(i)
                  /\ rows[i].preconditions =
                        Delimited(tc[i].preconditions, "; ", Len(tc[i].preconditions))
                  /\ tc[i].preconditions = <<>> => rows[i].preconditions = ""
                  /\ rows[i].steps = Delimited(tc[i].steps, " | ", Len(tc[i].steps))
                  /\ \A k \in 1..Len(tc[i].steps) :
                        SubSeq(tc[i].steps[k], 1, Len(ToString(k)) + 2) = ToString(k) \o ". "
                  /\ \A f \in { "id", "title", "test_data", "expected", "risk",
                                "automation_candidate", "automation_reason" } :
                        rows[i][f] = tc[i][f]

C9_Witness ==
    /\ tdf # <<>>
    /\ tdf[1][2].preconditions = "OTP enabled for tenant; User enrolled in OTP"
    /\ tdf[1][3].preconditions = ""
    /\ tdf[1][8].steps = "1. Wait lockout duration | 2. Attempt valid login"

\* C10: whatever the user does, a parsed record starts with the one constant
\* assumption; a record differs from it at most by one appended
\* "Answered clarifications: k", k being the number of non-empty answers of
\* the run that made the record; and a rendered design carries the record's
\* one or two assumptions.
C10_AssumptionsPerRun ==
    /\ parse_requirement(input_text).assumptions =
          << "Email is unique username (inferred, confidence=0.65)" >>
    /\ ra # <<>> =>
          \/ ra[1].assumptions = << "Email is unique username (inferred, confidence=0.65)" >>
          \/ /\ trigger = "apply"
             /\ ra[1].assumptions =
                   << "Email is unique username (inferred, confidence=0.65)",
                      "Answered clarifications: "
                         \o ToString(Cardinality({ q \in DOMAIN answers : answers[q] # "" })) >>
    /\ td # <<>> =>
          /\ ra # <<>>
          /\ td[1].assumptions = ra[1].assumptions
          /\ Len(td[1].assumptions) \in {1, 2}

\* a design rendered by a run in Test Design mode on a text the user typed
C10_Witness ==
    /\ td # <<>>
    /\ trigger = "run"
    /\ mode = "Test Design"
    /\ input_text # default_text

====
